---- MODULE Spec2Model ----
(***************************************************************************)
(* The 2048 board engine of g048 (package model, board.go): the grid, the  *)
(* score, the random tile spawn, the four directional moves and the        *)
(* end-of-game predicate.                                                  *)
(*                                                                         *)
(* Tile and Score are uint32 in the source.  Every value the bounded       *)
(* model reaches stays far below 2^31, so no arithmetic here wraps.        *)
(***************************************************************************)
EXTENDS Integers, Sequences, FiniteSets, TLC

\* board.go: const BoardSize = 4
BoardSize == 4

\* Largest tile exponent of the enumerated starting grids (tiles 2..2^MaxExp).
MaxExp == 2

\* Number of moves played on one board constructed by NewBoard().
MaxMoves == 3

\* Number of distinct raw draws of the random source that are explored.
MaxRand == 2

Idx == 0 .. (BoardSize - 1)

\* type Coordinate struct { Row int; Col int }
Coordinate(row, col) == [Row |-> row, Col |-> col]

\* type Grid [BoardSize][BoardSize]Tile, zero-initialised
ZeroRow == [c \in Idx |-> 0]
ZeroGrid == [r \in Idx |-> ZeroRow]
NoFlags == [r \in Idx |-> [c \in Idx |-> FALSE]]

(***************************************************************************)
(* A board value.  grid and score are the fields of struct Board.  The     *)
(* remaining fields observe one move call and are no part of the program:  *)
(*   fresh[r][c]  the tile now at (r,c) was produced by a merge of this    *)
(*                call (the flag travels with the tile when it slides);    *)
(*   gain         sum of the post-merge (doubled) values of the merges;    *)
(*   count        number of merges;                                        *)
(*   cascade      some merge consumed a tile that was itself produced by   *)
(*                a merge of the same call.                                *)
(* The random source is the environment: its draws are action inputs.      *)
(***************************************************************************)
Board(g, s) ==
    [grid |-> g, score |-> s, fresh |-> NoFlags, gain |-> 0, count |-> 0,
     cascade |-> FALSE]

\* The cells in the order of the nested loops "for row ... for col ...".
RowMajor ==
    [k \in 1 .. (BoardSize * BoardSize) |->
        Coordinate((k - 1) \div BoardSize, (k - 1) % BoardSize)]

\* Positions recorded by the scan of generateTile, in row-major order.
possiblePositions(g) == SelectSeq(RowMajor, LAMBDA p : g[p.Row][p.Col] = 0)

\* The raw draws of the random source, and random.Intn(n) on the draw x.
Rand == 0 .. (MaxRand - 1)
Intn(n, x) == x % n

\* generateTile choosing among all cells instead of the open positions
generateTile_AnyCell(b, x1, x2) ==
    LET tileValue == IF Intn(4, x1) = 0 THEN 4 ELSE 2
        positions == RowMajor
        possibleSize == Len(positions)
    IN  IF possibleSize > 0
        THEN LET pos == positions[Intn(possibleSize, x2) + 1]
             IN  [b EXCEPT !.grid[pos.Row][pos.Col] = tileValue]
        ELSE b

\* generateTile: x1 and x2 are the two draws the call may consume (the
\* second one only when the grid has an open position).
generateTile(b, x1, x2) ==
    LET tileValue == IF Intn(4, x1) = 0 THEN 4 ELSE 2
        positions == possiblePositions(b.grid)
        possibleSize == Len(positions)
    IN  IF possibleSize > 0
        THEN LET pos == positions[Intn(possibleSize, x2) + 1]
             IN  [b EXCEPT !.grid[pos.Row][pos.Col] = tileValue]
        ELSE b

\* initBoard placing a single tile
initBoard_Once(b, x1, x2, x3, x4) == generateTile(b, x1, x2)

\* initBoard: two tiles on the empty board
initBoard(b, x1, x2, x3, x4) == generateTile(generateTile(b, x1, x2), x3, x4)

\* NewBoard: score 0, zero grid, then initBoard
NewBoard(x1, x2, x3, x4) == initBoard(Board(ZeroGrid, 0), x1, x2, x3, x4)

\* calcMove accumulating into any occupied target, equal or not
calcMove_AddAlways(b, curPos, nextPos) ==
    LET curValue == b.grid[curPos.Row][curPos.Col]
        nextValue == b.grid[nextPos.Row][nextPos.Col]
        curFresh == b.fresh[curPos.Row][curPos.Col]
        nextFresh == b.fresh[nextPos.Row][nextPos.Col]
    IN  IF nextValue = 0
        THEN [b EXCEPT !.grid[nextPos.Row][nextPos.Col] = curValue,
                       !.grid[curPos.Row][curPos.Col] = 0,
                       !.fresh[nextPos.Row][nextPos.Col] = curFresh,
                       !.fresh[curPos.Row][curPos.Col] = FALSE]
        ELSE IF curValue # 0
        THEN [b EXCEPT !.grid[nextPos.Row][nextPos.Col] = nextValue + curValue,
                       !.grid[curPos.Row][curPos.Col] = 0,
                       !.score = b.score + nextValue,
                       !.fresh[nextPos.Row][nextPos.Col] = TRUE,
                       !.fresh[curPos.Row][curPos.Col] = FALSE,
                       !.gain = b.gain + nextValue + curValue,
                       !.count = b.count + 1,
                       !.cascade = b.cascade \/ curFresh \/ nextFresh]
        ELSE b

\* calcMove sliding a tile without clearing the cell it came from
calcMove_KeepCur(b, curPos, nextPos) ==
    LET curValue == b.grid[curPos.Row][curPos.Col]
        nextValue == b.grid[nextPos.Row][nextPos.Col]
        curFresh == b.fresh[curPos.Row][curPos.Col]
        nextFresh == b.fresh[nextPos.Row][nextPos.Col]
    IN  IF nextValue = 0
        THEN [b EXCEPT !.grid[nextPos.Row][nextPos.Col] = curValue,
                       !.fresh[nextPos.Row][nextPos.Col] = curFresh]
        ELSE IF curValue = nextValue
        THEN [b EXCEPT !.grid[nextPos.Row][nextPos.Col] = nextValue * 2,
                       !.grid[curPos.Row][curPos.Col] = 0,
                       !.score = b.score + nextValue,
                       !.fresh[nextPos.Row][nextPos.Col] = TRUE,
                       !.fresh[curPos.Row][curPos.Col] = FALSE,
                       !.gain = b.gain + nextValue * 2,
                       !.count = b.count + 1,
                       !.cascade = b.cascade \/ curFresh \/ nextFresh]
        ELSE b

\* calcMove with the score statement outside the branches
calcMove_ScoreAlways(b, curPos, nextPos) ==
    LET curValue == b.grid[curPos.Row][curPos.Col]
        nextValue == b.grid[nextPos.Row][nextPos.Col]
        curFresh == b.fresh[curPos.Row][curPos.Col]
        nextFresh == b.fresh[nextPos.Row][nextPos.Col]
    IN  IF nextValue = 0
        THEN [b EXCEPT !.grid[nextPos.Row][nextPos.Col] = curValue,
                       !.grid[curPos.Row][curPos.Col] = 0,
                       !.fresh[nextPos.Row][nextPos.Col] = curFresh,
                       !.fresh[curPos.Row][curPos.Col] = FALSE]
        ELSE IF curValue = nextValue
        THEN [b EXCEPT !.grid[nextPos.Row][nextPos.Col] = nextValue * 2,
                       !.grid[curPos.Row][curPos.Col] = 0,
                       !.score = b.score + nextValue,
                       !.fresh[nextPos.Row][nextPos.Col] = TRUE,
                       !.fresh[curPos.Row][curPos.Col] = FALSE,
                       !.gain = b.gain + nextValue * 2,
                       !.count = b.count + 1,
                       !.cascade = b.cascade \/ curFresh \/ nextFresh]
        ELSE [b EXCEPT !.score = b.score + nextValue]

\* calcMove assigning the score where it should add to it
calcMove_ScoreAssign(b, curPos, nextPos) ==
    LET curValue == b.grid[curPos.Row][curPos.Col]
        nextValue == b.grid[nextPos.Row][nextPos.Col]
        curFresh == b.fresh[curPos.Row][curPos.Col]
        nextFresh == b.fresh[nextPos.Row][nextPos.Col]
    IN  IF nextValue = 0
        THEN [b EXCEPT !.grid[nextPos.Row][nextPos.Col] = curValue,
                       !.grid[curPos.Row][curPos.Col] = 0,
                       !.fresh[nextPos.Row][nextPos.Col] = curFresh,
                       !.fresh[curPos.Row][curPos.Col] = FALSE]
        ELSE IF curValue = nextValue
        THEN [b EXCEPT !.grid[nextPos.Row][nextPos.Col] = nextValue * 2,
                       !.grid[curPos.Row][curPos.Col] = 0,
                       !.score = nextValue,
                       !.fresh[nextPos.Row][nextPos.Col] = TRUE,
                       !.fresh[curPos.Row][curPos.Col] = FALSE,
                       !.gain = b.gain + nextValue * 2,
                       !.count = b.count + 1,
                       !.cascade = b.cascade \/ curFresh \/ nextFresh]
        ELSE b

\* calcMove without the merge branch
calcMove_SlideOnly(b, curPos, nextPos) ==
    LET curValue == b.grid[curPos.Row][curPos.Col]
        nextValue == b.grid[nextPos.Row][nextPos.Col]
        curFresh == b.fresh[curPos.Row][curPos.Col]
    IN  IF nextValue = 0
        THEN [b EXCEPT !.grid[nextPos.Row][nextPos.Col] = curValue,
                       !.grid[curPos.Row][curPos.Col] = 0,
                       !.fresh[nextPos.Row][nextPos.Col] = curFresh,
                       !.fresh[curPos.Row][curPos.Col] = FALSE]
        ELSE b

\* calcMove(curPos, nextPos)
calcMove(b, curPos, nextPos) ==
    LET curValue == b.grid[curPos.Row][curPos.Col]
        nextValue == b.grid[nextPos.Row][nextPos.Col]
        curFresh == b.fresh[curPos.Row][curPos.Col]
        nextFresh == b.fresh[nextPos.Row][nextPos.Col]
    IN  IF nextValue = 0
        THEN [b EXCEPT !.grid[nextPos.Row][nextPos.Col] = curValue,
                       !.grid[curPos.Row][curPos.Col] = 0,
                       !.fresh[nextPos.Row][nextPos.Col] = curFresh,
                       !.fresh[curPos.Row][curPos.Col] = FALSE]
        ELSE IF curValue = nextValue
        THEN [b EXCEPT !.grid[nextPos.Row][nextPos.Col] = nextValue * 2,
                       !.grid[curPos.Row][curPos.Col] = 0,
                       !.score = b.score + nextValue,
                       !.fresh[nextPos.Row][nextPos.Col] = TRUE,
                       !.fresh[curPos.Row][curPos.Col] = FALSE,
                       !.gain = b.gain + nextValue * 2,
                       !.count = b.count + 1,
                       !.cascade = b.cascade \/ curFresh \/ nextFresh]
        ELSE b

(***************************************************************************)
(* The loop bodies handed to makeMove by the four move methods.  k counts  *)
(* the calcMove calls one pass has made so far; movePair gives the         *)
(* arguments of the next call, in the order of the nested for loops.       *)
(***************************************************************************)
Moves == {"MoveLeft", "MoveRight", "MoveUp", "MoveDown"}

\* the pairs with MoveUp walking its rows from the bottom
movePair_UpFromBottom(move, k) ==
    CASE move = "MoveLeft" ->
           LET row == k \div (BoardSize - 1)
               col == 1 + (k % (BoardSize - 1))
           IN  << Coordinate(row, col), Coordinate(row, col - 1) >>
      [] move = "MoveRight" ->
           LET row == k \div (BoardSize - 1)
               col == (BoardSize - 2) - (k % (BoardSize - 1))
           IN  << Coordinate(row, col), Coordinate(row, col + 1) >>
      [] move = "MoveUp" ->
           LET row == (BoardSize - 1) - (k \div BoardSize)
               col == k % BoardSize
           IN  << Coordinate(row, col), Coordinate(row - 1, col) >>
      [] move = "MoveDown" ->
           LET row == (BoardSize - 2) - (k \div BoardSize)
               col == k % BoardSize
           IN  << Coordinate(row, col), Coordinate(row + 1, col) >>

\* the pairs with MoveLeft walking its columns from the right
movePair_RightToLeft(move, k) ==
    CASE move = "MoveLeft" ->
           LET row == k \div (BoardSize - 1)
               col == (BoardSize - 1) - (k % (BoardSize - 1))
           IN  << Coordinate(row, col), Coordinate(row, col - 1) >>
      [] move = "MoveRight" ->
           LET row == k \div (BoardSize - 1)
               col == (BoardSize - 2) - (k % (BoardSize - 1))
           IN  << Coordinate(row, col), Coordinate(row, col + 1) >>
      [] move = "MoveUp" ->
           LET row == 1 + (k \div BoardSize)
               col == k % BoardSize
           IN  << Coordinate(row, col), Coordinate(row - 1, col) >>
      [] move = "MoveDown" ->
           LET row == (BoardSize - 2) - (k \div BoardSize)
               col == k % BoardSize
           IN  << Coordinate(row, col), Coordinate(row + 1, col) >>

movePair(move, k) ==
    CASE move = "MoveLeft" ->
           LET row == k \div (BoardSize - 1)
               col == 1 + (k % (BoardSize - 1))
           IN  << Coordinate(row, col), Coordinate(row, col - 1) >>
      [] move = "MoveRight" ->
           LET row == k \div (BoardSize - 1)
               col == (BoardSize - 2) - (k % (BoardSize - 1))
           IN  << Coordinate(row, col), Coordinate(row, col + 1) >>
      [] move = "MoveUp" ->
           LET row == 1 + (k \div BoardSize)
               col == k % BoardSize
           IN  << Coordinate(row, col), Coordinate(row - 1, col) >>
      [] move = "MoveDown" ->
           LET row == (BoardSize - 2) - (k \div BoardSize)
               col == k % BoardSize
           IN  << Coordinate(row, col), Coordinate(row + 1, col) >>

\* The boards one pass goes through: b, then the board after each of its
\* first k calcMove calls.
RECURSIVE moveBoardTrace(_, _, _)
moveBoardTrace(move, b, k) ==
    IF k = 0 THEN << b >>
    ELSE LET h == moveBoardTrace(move, b, k - 1)
             p == movePair(move, k - 1)
         IN  Append(h, calcMove(h[Len(h)], p[1], p[2]))

\* one invocation of the moveBoard lambda: a full pass
moveBoard(move, b) ==
    LET h == moveBoardTrace(move, b, BoardSize * (BoardSize - 1))
    IN  h[Len(h)]

\* makeMove, "for i := 1; i < BoardSize; i++ { move() }": the board after
\* the iterations 1 .. i
RECURSIVE repeatMove(_, _, _)
repeatMove(move, b, i) ==
    IF i = 0 THEN b ELSE moveBoard(move, repeatMove(move, b, i - 1))

\* makeMove with one iteration less
slidePhase_TwoPasses(move, b) == repeatMove(move, b, BoardSize - 2)

\* the whole loop of makeMove: the board just before the spawn
slidePhase(move, b) == repeatMove(move, b, BoardSize - 1)

\* IsEndGame without the comparison against the surrounding positions
RECURSIVE isEndGameFrom_FullOnly(_, _)
isEndGameFrom_FullOnly(g, k) ==
    IF k = BoardSize * BoardSize THEN TRUE
    ELSE LET row == k \div BoardSize
             col == k % BoardSize
             value == g[row][col]
         IN  IF value = 0 THEN FALSE
             ELSE isEndGameFrom_FullOnly(g, k + 1)

\* IsEndGame of the revision that never reports the end
RECURSIVE isEndGameFrom_NeverTrue(_, _)
isEndGameFrom_NeverTrue(g, k) ==
    IF k = BoardSize * BoardSize THEN FALSE
    ELSE LET row == k \div BoardSize
             col == k % BoardSize
         IN  IF g[row][col] = 0 THEN FALSE
             ELSE isEndGameFrom_NeverTrue(g, k + 1)

\* IsEndGame comparing only against the positions of the same row
RECURSIVE isEndGameFrom_RowOnly(_, _)
isEndGameFrom_RowOnly(g, k) ==
    IF k = BoardSize * BoardSize THEN TRUE
    ELSE LET row == k \div BoardSize
             col == k % BoardSize
             boundSize == BoardSize - 1
             value == g[row][col]
         IN  IF value = 0 THEN FALSE
             ELSE IF (col > 0) /\ (value = g[row][col - 1]) THEN FALSE
             ELSE IF (col < boundSize) /\ (value = g[row][col + 1]) THEN FALSE
             ELSE isEndGameFrom_RowOnly(g, k + 1)

\* IsEndGame: the scan with its early returns, cell k in row-major order
RECURSIVE isEndGameFrom(_, _)
isEndGameFrom(g, k) ==
    IF k = BoardSize * BoardSize THEN TRUE
    ELSE LET row == k \div BoardSize
             col == k % BoardSize
             boundSize == BoardSize - 1
             value == g[row][col]
         IN  IF value = 0 THEN FALSE
             ELSE IF (row > 0) /\ (value = g[row - 1][col]) THEN FALSE
             ELSE IF (row < boundSize) /\ (value = g[row + 1][col]) THEN FALSE
             ELSE IF (col > 0) /\ (value = g[row][col - 1]) THEN FALSE
             ELSE IF (col < boundSize) /\ (value = g[row][col + 1]) THEN FALSE
             ELSE isEndGameFrom(g, k + 1)

IsEndGame(g) == isEndGameFrom(g, 0)

(***************************************************************************)
(* State.  grid and score are the Board in play.  budget is the number of  *)
(* move calls still to be made in this run.  The other variables record    *)
(* the last call: last its name, pre the board it started from, mid the    *)
(* board after the passes and before the spawn, with the observations of   *)
(* the call.                                                               *)
(***************************************************************************)
VARIABLES grid, score, budget, last, pre, mid

(***************************************************************************)
(* State of the program around the board (g048.go, textGame.go).  pcMain   *)
(* and pcEvent are the positions of the main thread and of the goroutine   *)
(* running initEventListener; action is the action of the event in hand;   *)
(* screen is the sequence of callback invocations of the last drawBoard.   *)
(* The program has no lock:                                                *)
(* writing says that the goroutine is inside a move call that changes      *)
(* cells of the board in play, torn that such a call overlapped the        *)
(* IsEndGame call the main thread is in.  calls and draws observe the      *)
(* handling of the event in hand: the engine calls made and the number of  *)
(* redraws.                                                                *)
(***************************************************************************)
VARIABLES pcMain, pcEvent, action, screen, writing, torn, calls, draws

ctl == << pcMain, pcEvent, action, screen, writing, torn, calls, draws >>

vars == << grid, score, budget, last, pre, mid, ctl >>

\* the board used directly, without the program around it
NoController ==
    /\ pcMain = "none"
    /\ pcEvent = "none"
    /\ action = "ActionIllegal"
    /\ screen = << >>
    /\ writing = FALSE
    /\ torn = FALSE
    /\ calls = << >>
    /\ draws = 0

\* The board after construction: NewBoard() with every outcome of its draws.
Init ==
    \E x1 \in Rand, x2 \in Rand, x3 \in Rand, x4 \in Rand :
      LET b == NewBoard(x1, x2, x3, x4)
      IN  /\ grid = b.grid
          /\ score = b.score
          /\ budget = MaxMoves
          /\ last = "NewBoard"
          /\ pre = b
          /\ mid = b
          /\ NoController

\* makeMove generating a tile only when the passes changed the grid
Move_SpawnIfChanged(move) ==
    /\ budget > 0
    /\ \E m \in {slidePhase(move, Board(grid, score))} :
         \E x1 \in Rand, x2 \in Rand :
           LET a == IF m.grid = grid THEN m ELSE generateTile(m, x1, x2)
           IN  /\ grid' = a.grid
               /\ score' = a.score
               /\ mid' = m
    /\ pre' = Board(grid, score)
    /\ budget' = budget - 1
    /\ last' = move

\* makeMove(move): the passes, then one generateTile.
Move(move) ==
    /\ budget > 0
    /\ \E m \in {slidePhase(move, Board(grid, score))} :
         \E x1 \in Rand, x2 \in Rand :
           LET a == generateTile(m, x1, x2)
           IN  /\ grid' = a.grid
               /\ score' = a.score
               /\ mid' = m
    /\ pre' = Board(grid, score)
    /\ budget' = budget - 1
    /\ last' = move

MoveLeft == Move("MoveLeft") /\ UNCHANGED ctl
MoveRight == Move("MoveRight") /\ UNCHANGED ctl
MoveUp == Move("MoveUp") /\ UNCHANGED ctl
MoveDown == Move("MoveDown") /\ UNCHANGED ctl

Next == MoveLeft \/ MoveRight \/ MoveUp \/ MoveDown

\* A game: every sequence of at most MaxMoves moves on a new board.
Spec == Init /\ [][Next]_vars

(***************************************************************************)
(* Single calls on boards in mid-game.  The starting grids are the grids   *)
(* with rows << r, s, t, s >>, r any row of tiles up to 2^MaxExp, s one of *)
(* the rows derived from r below, t either r or the empty row, and         *)
(* optionally one cell of the diagonal emptied; grids with fewer than two  *)
(* tiles are left out, the engine never holds one.                         *)
(***************************************************************************)
TileVals == {0} \cup {2 ^ e : e \in 1 .. MaxExp}
Rows == [Idx -> TileVals]

Bump(v) == IF v = 0 THEN 0 ELSE IF v = 2 ^ MaxExp THEN 2 ELSE 2 * v
BumpRow(r) == [c \in Idx |-> Bump(r[c])]
ReverseRow(r) == [c \in Idx |-> r[(BoardSize - 1) - c]]
DerivedRows(r) ==
    {ZeroRow, r, BumpRow(r), ReverseRow(r), BumpRow(ReverseRow(r))}

Occupied(g) == Cardinality({p \in Idx \X Idx : g[p[1]][p[2]] # 0})

StartGrids ==
    LET base == UNION {{[i \in Idx |-> IF i = 0 THEN r
                                      ELSE IF i = 2 THEN t ELSE s] :
                          s \in DerivedRows(r), t \in {r, ZeroRow}} :
                       r \in Rows}
        holed == {[g EXCEPT ![d][d] = 0] : g \in base, d \in Idx}
    IN  {g \in base \cup holed : Occupied(g) >= 2}

InitGrid ==
    /\ grid \in StartGrids
    /\ score = 0
    /\ budget = 1
    /\ last = "none"
    /\ pre = Board(grid, score)
    /\ mid = Board(grid, score)
    /\ NoController

SpecGrid == InitGrid /\ [][Next]_vars

(***************************************************************************)
(* The program around the board: main (g048.go) and TextGame (textGame.go, *)
(* display.go).  The main thread runs "for playAgain { InitGame(NewBoard())*)
(* ; playAgain = RenderGame() }"; the first InitGame starts the goroutine  *)
(* of initEventListener.  Calls into the board that take part in a race    *)
(* are intervals with a call step and a return step; the effect of a move  *)
(* is set at its call step and a read overlapping a changing move may      *)
(* return any outcome.                                                     *)
(***************************************************************************)
\* RenderBoard with the end-of-line flag computed from the row
RECURSIVE renderFrom_EOLByRow(_, _)
renderFrom_EOLByRow(g, k) ==
    IF k = 0 THEN << >>
    ELSE LET row == (k - 1) \div BoardSize
             col == (k - 1) % BoardSize
             isEOL == (row + 1) = BoardSize
         IN  Append(renderFrom_EOLByRow(g, k - 1),
                    [pos |-> Coordinate(row, col), isEOL |-> isEOL,
                     tile |-> g[row][col]])

\* RenderBoard: the invocations of the callback made for the first k cells
\* of the nested loops over row and col
RECURSIVE renderFrom(_, _)
renderFrom(g, k) ==
    IF k = 0 THEN << >>
    ELSE LET row == (k - 1) \div BoardSize
             col == (k - 1) % BoardSize
             isEOL == (col + 1) = BoardSize
         IN  Append(renderFrom(g, k - 1),
                    [pos |-> Coordinate(row, col), isEOL |-> isEOL,
                     tile |-> g[row][col]])

RenderBoard(g) == renderFrom(g, BoardSize * BoardSize)

\* the events PollEvent can return: key events (runes and named keys) and
\* an event of another type
Events ==
    {"w", "a", "d", "s", "x", "KeyUp", "KeyLeft", "KeyRight", "KeyDown",
     "KeyCtrlC", "KeyEsc", "KeyEnter", "EventResize"}

\* the switch of initEventListener over the key of a key event
eventAction(e) ==
    CASE e \in {"w", "KeyUp"} -> "ActionUp"
      [] e \in {"a", "KeyLeft"} -> "ActionLeft"
      [] e \in {"d", "KeyRight"} -> "ActionRight"
      [] e \in {"s", "KeyDown"} -> "ActionDown"
      [] e \in {"KeyCtrlC", "KeyEsc"} -> "ActionExit"
      [] OTHER -> "ActionIllegal"

\* ActionHandler with the cases of ActionUp and ActionDown exchanged
handlerMove_UpDown(a) ==
    CASE a = "ActionLeft" -> "MoveLeft"
      [] a = "ActionRight" -> "MoveRight"
      [] a = "ActionUp" -> "MoveDown"
      [] a = "ActionDown" -> "MoveUp"

\* the switch of ActionHandler over the four move actions
handlerMove(a) ==
    CASE a = "ActionLeft" -> "MoveLeft"
      [] a = "ActionRight" -> "MoveRight"
      [] a = "ActionUp" -> "MoveUp"
      [] a = "ActionDown" -> "MoveDown"

MoveActions == {"ActionLeft", "ActionRight", "ActionUp", "ActionDown"}

Running == pcMain # "exited" /\ pcEvent # "exited"

\* the boards NewBoard() can return, over the draws it consumes
NewBoards ==
    {NewBoard(x1, x2, x3, x4) : x1 \in Rand, x2 \in Rand, x3 \in Rand, x4 \in Rand}

\* InitGame(NewBoard()) of the main loop: t.board = b; on the first game
\* the screen is created (ok tells whether that succeeded; if not the
\* program exits with ERROR_SCREEN_INIT) and the goroutine is started.
InitGame ==
    /\ pcMain = "InitGame"
    /\ Running
    /\ \E b \in NewBoards :
         /\ grid' = b.grid
         /\ score' = b.score
         /\ pre' = b
         /\ mid' = b
    /\ IF pcEvent = "unborn"
       THEN \E ok \in BOOLEAN :
              IF ok
              THEN pcMain' = "drawBoard" /\ pcEvent' = "PollEvent"
              ELSE pcMain' = "exited" /\ pcEvent' = pcEvent
       ELSE pcMain' = "drawBoard" /\ pcEvent' = pcEvent
    /\ last' = "NewBoard"
    /\ writing' = FALSE
    /\ torn' = FALSE
    /\ UNCHANGED << budget, action, screen, calls, draws >>

\* RenderGame, t.drawBoard(): a drawing that overlaps a changing move sees
\* the board before the call, after its passes or after its spawn
RenderGameDrawBoard ==
    /\ pcMain = "drawBoard"
    /\ Running
    /\ screen' \in IF writing
                   THEN {RenderBoard(pre.grid), RenderBoard(mid.grid),
                         RenderBoard(grid)}
                   ELSE {RenderBoard(grid)}
    /\ pcMain' = "loop"
    /\ UNCHANGED << grid, score, budget, last, pre, mid, pcEvent, action,
                    writing, torn, calls, draws >>

\* RenderGame, the loop condition: the call of t.board.IsEndGame()
RenderGameIsEndGame ==
    /\ pcMain = "loop"
    /\ Running
    /\ pcMain' = "IsEndGame"
    /\ torn' = writing
    /\ UNCHANGED << grid, score, budget, last, pre, mid, pcEvent, action,
                    screen, writing, calls, draws >>

\* RenderGame, the return of IsEndGame: false sleeps and tests again, true
\* returns true to main, which loops
RenderGameReturn ==
    /\ pcMain = "IsEndGame"
    /\ Running
    /\ \E r \in IF torn THEN BOOLEAN ELSE {IsEndGame(grid)} :
         pcMain' = IF r THEN "InitGame" ELSE "loop"
    /\ torn' = FALSE
    /\ UNCHANGED << grid, score, budget, last, pre, mid, pcEvent, action,
                    screen, writing, calls, draws >>

\* initEventListener, PollEvent and the switch over the event: an event
\* that is no key event is skipped, a key without action is dropped
PollEvent ==
    /\ pcEvent = "PollEvent"
    /\ Running
    /\ \E e \in Events :
         IF e = "EventResize"
         THEN UNCHANGED << pcEvent, action, calls, draws >>
         ELSE /\ eventAction(e) \in MoveActions => budget > 0
              /\ action' = eventAction(e)
              /\ calls' = << >>
              /\ draws' = 0
              /\ pcEvent' = IF eventAction(e) = "ActionIllegal"
                            THEN "PollEvent" ELSE "ActionHandler"
    /\ UNCHANGED << grid, score, budget, last, pre, mid, pcMain, screen, writing, torn >>

\* ActionHandler, the four move cases: the call of the move on t.board
ActionHandlerMove ==
    /\ pcEvent = "ActionHandler"
    /\ Running
    /\ action \in MoveActions
    /\ Move(handlerMove(action))
    /\ calls' = Append(calls, handlerMove(action))
    /\ writing' = (mid'.grid # grid \/ grid' # grid)
    /\ torn' = (torn \/ (pcMain = "IsEndGame" /\ writing'))
    /\ pcEvent' = "Move"
    /\ UNCHANGED << pcMain, action, screen, draws >>

\* ActionHandler, case ActionExit: onExit() ends the program
ActionHandlerExit ==
    /\ pcEvent = "ActionHandler"
    /\ Running
    /\ action = "ActionExit"
    /\ pcEvent' = "exited"
    /\ UNCHANGED << grid, score, budget, last, pre, mid, pcMain, action,
                    screen, writing, torn, calls, draws >>

\* the return of the move called by ActionHandler
MoveReturn ==
    /\ pcEvent = "Move"
    /\ Running
    /\ pcEvent' = "drawBoard"
    /\ writing' = FALSE
    /\ UNCHANGED << grid, score, budget, last, pre, mid, pcMain, action,
                    screen, torn, calls, draws >>

\* initEventListener, t.drawBoard() after ActionHandler
ListenerDrawBoard ==
    /\ pcEvent = "drawBoard"
    /\ Running
    /\ screen' = RenderBoard(grid)
    /\ draws' = draws + 1
    /\ pcEvent' = "PollEvent"
    /\ UNCHANGED << grid, score, budget, last, pre, mid, pcMain, action,
                    writing, torn, calls >>

MainStep ==
    InitGame \/ RenderGameDrawBoard \/ RenderGameIsEndGame \/ RenderGameReturn

ListenerStep ==
    ActionHandlerMove \/ ActionHandlerExit \/ MoveReturn \/ ListenerDrawBoard

NextCtl == MainStep \/ ListenerStep \/ PollEvent

\* a full board alternating the tiles a and b
Chequer(a, b) ==
    [r \in Idx |-> [c \in Idx |-> IF (r + c) % 2 = 0 THEN a ELSE b]]

\* boards at the end of a game: the boards alternating the tiles 2 and 4 (on
\* which no move is left), and those boards with one corner still empty
LateGrids ==
    LET full == {Chequer(2, 4), Chequer(4, 2)}
    IN  full \cup {[g EXCEPT ![d][d] = 0] : g \in full, d \in {0, BoardSize - 1}}

\* Single key presses: the program at its start, or at the end of its first
\* game with the main thread in the loop of RenderGame and the goroutine
\* waiting for an event, and in either case one more move to be called.
InitCtl ==
    /\ \/ /\ grid = ZeroGrid
          /\ pcMain = "InitGame"
          /\ pcEvent = "unborn"
          /\ screen = << >>
       \/ /\ grid \in LateGrids
          /\ pcMain = "loop"
          /\ pcEvent = "PollEvent"
          /\ screen = RenderBoard(grid)
    /\ score = 0
    /\ budget = 1
    /\ last = "none"
    /\ pre = Board(grid, score)
    /\ mid = Board(grid, score)
    /\ action = "ActionIllegal"
    /\ writing = FALSE
    /\ torn = FALSE
    /\ calls = << >>
    /\ draws = 0

SpecCtl == InitCtl /\ [][NextCtl]_vars

\* The main thread is scheduled fairly and a move that was called returns;
\* nothing is assumed about the arrival of events.
SpecCtlFair == SpecCtl /\ WF_vars(MainStep) /\ WF_vars(MoveReturn)

(***************************************************************************)
(* Vocabulary of the properties.                                           *)
(***************************************************************************)
Cells == Idx \X Idx
Moved == last \in Moves
Full(g) == \A p \in Cells : g[p[1]][p[2]] # 0
HasEmpty(g) == \E p \in Cells : g[p[1]][p[2]] = 0
RowOf(a, b, c, d) == [i \in Idx |-> << a, b, c, d >>[i + 1]]

\* two orthogonally adjacent cells hold the same nonzero value
AdjacentEqual(g) ==
    \E p \in Cells :
      /\ g[p[1]][p[2]] # 0
      /\ \/ p[2] + 1 < BoardSize /\ g[p[1]][p[2] + 1] = g[p[1]][p[2]]
         \/ p[1] + 1 < BoardSize /\ g[p[1] + 1][p[2]] = g[p[1]][p[2]]

\* a full checkerboard of two distinct tile values
Checkerboard(g) ==
    \E v \in (TileVals \ {0}) \X (TileVals \ {0}) :
      /\ v[1] # v[2]
      /\ \A p \in Cells :
           g[p[1]][p[2]] = IF (p[1] + p[2]) % 2 = 0 THEN v[1] ELSE v[2]

\* C1: IsEndGame() is true exactly when the grid has no empty cell and no
\* two orthogonally adjacent cells hold the same nonzero value; so it is
\* true on a full checkerboard of two values and false on a checkerboard
\* with one cell emptied.
C1_EndGameIff ==
    /\ IsEndGame(grid) <=> (Full(grid) /\ ~AdjacentEqual(grid))
    /\ Checkerboard(grid) =>
         /\ IsEndGame(grid)
         /\ \A p \in Cells : ~IsEndGame([grid EXCEPT ![p[1]][p[2]] = 0])

C1_Witness == Checkerboard(grid) /\ IsEndGame(grid) /\ last = "none"

\* C2: within one move call no tile produced by a merge of that call takes
\* part in a further merge of the same call.
C2_NoCascade == Moved => ~mid.cascade

\* C3: the score increase over one move call is the sum of the post-merge
\* (doubled) values of the merges of that call.
C3_ScoreGain == Moved => score - pre.score = mid.gain

\* the grid whose only tiles are the row r, in row 0
Alone(r) == [i \in Idx |-> IF i = 0 THEN r ELSE ZeroRow]

\* every row paired with what the passes of MoveLeft make of it when it is
\* the only row of the grid
MoveLeftAlone ==
    {<< r, slidePhase("MoveLeft", Board(Alone(r), 0)).grid[0] >> : r \in Rows}

\* C4: the passes of MoveLeft turn a row [2,2,0,0] into [4,0,0,0] and a row
\* [2,0,2,2] into [4,2,0,0], and every row ends as it would end if it were
\* the only row of the grid.
C4_MoveLeftRows ==
    last = "MoveLeft" =>
      \A i \in Idx :
        /\ pre.grid[i] = RowOf(2, 2, 0, 0) => mid.grid[i] = RowOf(4, 0, 0, 0)
        /\ pre.grid[i] = RowOf(2, 0, 2, 2) => mid.grid[i] = RowOf(4, 2, 0, 0)
        /\ << pre.grid[i], mid.grid[i] >> \in MoveLeftAlone

C4_Witness ==
    /\ last = "MoveLeft"
    /\ \E i \in Idx, j \in Idx :
         /\ pre.grid[i] = RowOf(2, 0, 2, 2)
         /\ mid.grid[i] = RowOf(4, 2, 0, 0)
         /\ pre.grid[j] # pre.grid[i]
         /\ pre.grid[j] # ZeroRow

\* C5: every move call ends with exactly one more occupied cell than the
\* grid had after its passes if that grid had an empty cell, also when the
\* passes changed nothing, and with that very grid if it had none.
C5_OneSpawn ==
    Moved =>
      IF HasEmpty(mid.grid)
      THEN Occupied(grid) = Occupied(mid.grid) + 1
      ELSE grid = mid.grid

C5_Witness ==
    /\ Moved
    /\ mid.grid = pre.grid
    /\ HasEmpty(mid.grid)
    /\ Occupied(grid) = Occupied(mid.grid) + 1

\* the cells in which two grids differ
Changed(g, h) == {p \in Cells : g[p[1]][p[2]] # h[p[1]][p[2]]}

\* C6: the spawn of a call changes exactly one cell, an empty one, to 2 or
\* 4 and leaves the score alone if the grid has an empty cell; it changes
\* neither grid nor score if the grid has none.
C6_SpawnFrame ==
    Moved =>
      /\ score = mid.score
      /\ IF HasEmpty(mid.grid)
         THEN /\ Cardinality(Changed(mid.grid, grid)) = 1
              /\ \A p \in Changed(mid.grid, grid) :
                   /\ mid.grid[p[1]][p[2]] = 0
                   /\ grid[p[1]][p[2]] \in {2, 4}
              /\ Occupied(grid) = Occupied(mid.grid) + 1
         ELSE grid = mid.grid

C6_Witness ==
    /\ Moved
    /\ \E p \in Cells :
         /\ Changed(mid.grid, grid) = {p}
         /\ grid[p[1]][p[2]] = 4
         /\ \E q \in Cells : q # p /\ grid[q[1]][q[2]] = 0

RECURSIVE IsPowerOfTwo(_)
IsPowerOfTwo(v) ==
    \/ v = 2
    \/ v > 2 /\ v % 2 = 0 /\ IsPowerOfTwo(v \div 2)

\* C7: in every state of a game every cell holds 0 or a power of two that
\* is at least 2.
C7_TilesArePowers ==
    \A p \in Cells : grid[p[1]][p[2]] = 0 \/ IsPowerOfTwo(grid[p[1]][p[2]])

C7_Witness ==
    /\ Moved
    /\ mid.count > 0
    /\ \E p \in Cells : grid[p[1]][p[2]] >= 8

\* C8 as stated: the occupied-cell count after a whole move is at least
\* the count before it.
C8_NeverFewer == Moved => Occupied(grid) >= Occupied(pre.grid)

\* C8, amended: the occupied-cell count after a whole move is the count
\* before it, less one for every merge of the call, plus one for the spawn
\* if the grid had an empty cell after the passes.
C8_OccupiedBalance ==
    Moved =>
      Occupied(grid) = (Occupied(pre.grid) - mid.count)
                         + (IF HasEmpty(mid.grid) THEN 1 ELSE 0)

C8_Witness ==
    /\ Moved
    /\ mid.count >= 2
    /\ ~mid.cascade
    /\ Occupied(grid) < Occupied(pre.grid)

\* the neighbour of cell p one step toward the edge the tiles move to
Toward(move, p) ==
    CASE move = "MoveLeft" -> << p[1], p[2] - 1 >>
      [] move = "MoveRight" -> << p[1], p[2] + 1 >>
      [] move = "MoveUp" -> << p[1] - 1, p[2] >>
      [] move = "MoveDown" -> << p[1] + 1, p[2] >>

\* no cell has an equal-valued neighbour one step toward the moving edge
Blocked(move, g) ==
    \A p \in Cells :
      LET q == Toward(move, p)
      IN  q \in Cells => g[q[1]][q[2]] # g[p[1]][p[2]]

\* C9: a move on a full grid in a blocked direction leaves every cell and
\* the score as they were.
C9_BlockedNoOp ==
    (Moved /\ Full(pre.grid) /\ Blocked(last, pre.grid)) =>
      (grid = pre.grid /\ score = pre.score)

C9_Witness ==
    /\ Moved
    /\ Full(pre.grid)
    /\ Blocked(last, pre.grid)
    /\ ~IsEndGame(pre.grid)
    /\ grid = pre.grid

\* C10: over a game the score never decreases, and a move call without a
\* merge leaves it unchanged.
C10_ScoreMonotone ==
    [][score' >= score /\ (mid'.count = 0 => score' = score)]_vars

C10_Witness ==
    /\ Moved
    /\ mid.count = 0
    /\ pre.score > 0
    /\ score = pre.score

\* C11: a board returned by NewBoard has score 0 and exactly two occupied
\* cells, each holding 2 or 4 (every other cell is 0), so IsEndGame is false
\* on it.
C11_NewBoard ==
    last = "NewBoard" =>
        /\ score = 0
        /\ Occupied(grid) = 2
        /\ \A p \in Cells : grid[p[1]][p[2]] \in {0, 2, 4}
        /\ ~IsEndGame(grid)

\* a new board holding one 2 and one 4
C11_Witness ==
    /\ last = "NewBoard"
    /\ \E p \in Cells, q \in Cells :
          grid[p[1]][p[2]] = 2 /\ grid[q[1]][q[2]] = 4

\* every tile of g has no empty cell one step toward the moving edge
Compacted(move, g) ==
    \A p \in Cells :
      LET q == Toward(move, p)
      IN  (g[p[1]][p[2]] # 0 /\ q \in Cells) => g[q[1]][q[2]] # 0

\* C16: after the passes of a move (before the spawn) every line is
\* compacted toward the moving edge; for MoveLeft no row has a zero to the
\* left of a nonzero cell.
C16_Compacted ==
    /\ Moved => Compacted(last, mid.grid)
    /\ last = "MoveLeft" =>
         \A r \in Idx, c \in Idx, d \in Idx :
           (c < d /\ mid.grid[r][d] # 0) => mid.grid[r][c] # 0

\* a tile crossed the whole row: three single steps, one per pass
C16_Witness ==
    /\ last = "MoveLeft"
    /\ \E r \in Idx :
         /\ pre.grid[r] = RowOf(0, 0, 0, 2)
         /\ mid.grid[r] = RowOf(2, 0, 0, 0)

\* C17: after the passes of MoveLeft (before the spawn) no row holds two
\* horizontally adjacent equal nonzero tiles neither of which was produced
\* by a merge of this call.
C17_NoUnmergedPair ==
    last = "MoveLeft" =>
      \A r \in Idx, c \in 0 .. (BoardSize - 2) :
        (mid.grid[r][c] # 0 /\ mid.grid[r][c] = mid.grid[r][c + 1]) =>
          (mid.fresh[r][c] \/ mid.fresh[r][c + 1])

\* two equal tiles from the two ends of a row: adjacent after the second
\* pass, merged by the third
C17_Witness ==
    /\ last = "MoveLeft"
    /\ \E r \in Idx :
         /\ pre.grid[r] = RowOf(2, 0, 0, 2)
         /\ mid.grid[r] = RowOf(4, 0, 0, 0)

\* C19: once IsEndGame is true every move leaves the grid and the score
\* unchanged, so IsEndGame stays true.
C19_EndAbsorbing ==
    [][IsEndGame(grid) =>
         (grid' = grid /\ score' = score /\ IsEndGame(grid'))]_vars

\* a move call was made on an ended board
C19_Witness ==
    /\ Moved
    /\ IsEndGame(pre.grid)
    /\ IsEndGame(grid)
    /\ grid = pre.grid

\* the grid mirrored left to right, and the grid transposed
Mirror(g) == [r \in Idx |-> [c \in Idx |-> g[r][(BoardSize - 1) - c]]]
Transpose(g) == [r \in Idx |-> [c \in Idx |-> g[c][r]]]

\* the move and the symmetry that carry a move over to another one:
\* Conjugate(move, g) is the outcome of the passes that C18 equates with
\* the outcome of move on g
Conjugate(move, g) ==
    CASE move = "MoveRight" ->
           LET m == slidePhase("MoveLeft", Board(Mirror(g), 0))
           IN  << Mirror(m.grid), m.score >>
      [] move = "MoveUp" ->
           LET m == slidePhase("MoveLeft", Board(Transpose(g), 0))
           IN  << Transpose(m.grid), m.score >>
      [] move = "MoveDown" ->
           LET m == slidePhase("MoveRight", Board(Transpose(g), 0))
           IN  << Transpose(m.grid), m.score >>

\* C18: the passes of MoveRight give what MoveLeft gives on the mirrored
\* grid, mirrored back; MoveUp what MoveLeft gives on the transposed grid,
\* transposed back; MoveDown what MoveRight gives on the transposed grid,
\* transposed back; each with the same score increase.
C18_Symmetry ==
    (Moved /\ last # "MoveLeft") =>
      << mid.grid, mid.score - pre.score >> = Conjugate(last, pre.grid)

\* a MoveDown that merged in one column and only slid in another, on a
\* grid that is not its own transpose
C18_Witness ==
    /\ last = "MoveDown"
    /\ mid.count > 0
    /\ pre.grid # Transpose(pre.grid)
    /\ mid.grid # pre.grid
    /\ << mid.grid, mid.score - pre.score >> = Conjugate(last, pre.grid)

\* a step that is a call of drawBoard, by either thread
DrawStep ==
    \/ pcMain = "drawBoard" /\ pcMain' = "loop"
    \/ pcEvent = "drawBoard" /\ pcEvent' = "PollEvent"

\* the sequence d shows the grid g cell by cell
Shows(d, g) ==
    /\ Len(d) = BoardSize * BoardSize
    /\ \A r \in Idx, c \in Idx : d[r * BoardSize + c + 1].tile = g[r][c]

\* C12: a call of RenderBoard invokes the callback BoardSize * BoardSize
\* times, once per cell in row-major order, with the end-of-line flag true
\* exactly in the last column and (no move running beside it) with the value
\* of the cell; it leaves grid and score alone, and when the previous call
\* showed the grid as it still is, it produces the same sequence again.
C12_RenderBoard ==
    [][DrawStep =>
         /\ Len(screen') = BoardSize * BoardSize
         /\ \A r \in Idx, c \in Idx :
              LET d == screen'[r * BoardSize + c + 1]
              IN  /\ d.pos = Coordinate(r, c)
                  /\ d.isEOL = (c = BoardSize - 1)
         /\ ~writing => Shows(screen', grid)
         /\ grid' = grid
         /\ score' = score
         /\ (~writing /\ Shows(screen, grid)) => screen' = screen]_vars

\* the redraw after a move that changed nothing
C12_Witness ==
    /\ pcEvent = "PollEvent"
    /\ draws = 1
    /\ Moved
    /\ grid = pre.grid
    /\ Shows(screen, grid)
    /\ screen[BoardSize].isEOL
    /\ ~screen[BoardSize + 1].isEOL

\* C13: the calls into the board are serialized: the main thread is never
\* inside IsEndGame while the goroutine of the event listener is inside a
\* move that changes the board.
C13_Serialized == ~(pcMain = "IsEndGame" /\ pcEvent = "Move" /\ writing)

\* C14: no move is called on a board on which IsEndGame is true.
C14_InputGated ==
    [][(pcEvent = "ActionHandler" /\ pcEvent' = "Move") =>
         ~IsEndGame(grid)]_vars

\* the current board has ended and the program has not exited
Ended == Full(grid) /\ ~AdjacentEqual(grid) /\ Running

\* the main thread has just installed a new board
Replayed ==
    /\ pcMain = "drawBoard"
    /\ last = "NewBoard"
    /\ Occupied(grid) = 2
    /\ score = 0

NamedMove ==
    [a \in MoveActions |->
       CASE a = "ActionLeft" -> "MoveLeft"
         [] a = "ActionRight" -> "MoveRight"
         [] a = "ActionUp" -> "MoveUp"
         [] a = "ActionDown" -> "MoveDown"]

\* the handling of the event in hand, by the position of the listener
Handled ==
    /\ (pcEvent = "PollEvent" /\ action \in MoveActions) =>
         (calls = << NamedMove[action] >> /\ draws = 1)
    /\ (pcEvent \in {"Move", "drawBoard"}) =>
         (action \in MoveActions /\ calls = << NamedMove[action] >> /\ draws = 0)
    /\ (pcEvent = "ActionHandler" \/ action \in {"ActionIllegal", "ActionExit"}) =>
         (calls = << >> /\ draws = 0)
    /\ pcEvent = "exited" => action = "ActionExit"

\* C20: when the listener polls the next event, the move action before it
\* has made exactly the one engine call the claim names and then exactly one
\* redraw; ActionExit ends the program with no call into the board and no
\* change of it; a key without action causes no call and no redraw.
C20_OneCallOneDraw ==
    /\ []Handled
    /\ [][/\ (pcEvent # "exited" /\ pcEvent' = "exited") =>
               (grid' = grid /\ score' = score /\ screen' = screen)
          /\ (action # "ActionIllegal" /\ action' = "ActionIllegal") =>
               /\ pcEvent' = "PollEvent"
               /\ grid' = grid
               /\ score' = score
               /\ screen' = screen
          /\ (pcEvent = "ActionHandler" /\ pcEvent' = "Move") =>
               last' = NamedMove[action]]_vars

\* a handled ActionDown, back at PollEvent
C20_Witness ==
    /\ pcEvent = "PollEvent"
    /\ action = "ActionDown"
    /\ last = "MoveDown"
    /\ calls = << "MoveDown" >>
    /\ draws = 1
    /\ grid # pre.grid

====
